---- MODULE Spec2Model ----
(***************************************************************************)
(* Console Snake (src/c/game1.cpp): the globals width, height, gameOver,   *)
(* score, dir, food and snake, and the control flow of main(): initGame(), *)
(* then frames of draw(); input(); logic(); sleep_ms(delay) while          *)
(* !gameOver, then one optional replay.                                    *)
(*                                                                         *)
(* A cell is a pair <<x, y>>.  The snake is a sequence of cells whose      *)
(* first element is the head (deque front).                                *)
(***************************************************************************)
EXTENDS Integers, Sequences, FiniteSets

(* The grid.  The program plays on 40 x 20; the model plays the same code  *)
(* on a small grid so that every snake, the full board included, is        *)
(* explored.  initGame() needs width >= 3 to put the snake inside.         *)
width == 4
height == 2

(* The longest snake explored: a tick that would grow the snake beyond     *)
(* MaxLen is not taken.  With MaxLen = width * height no tick is left out. *)
MaxLen == 8

(* Position of main() *)
PcStart   == "start"      \* about to call initGame() for the first run
PcLoop    == "loop"       \* at the while (!gameOver) test
PcInput   == "input"      \* draw() done, about to call input()
PcLogic   == "logic"      \* about to call logic()
PcFood    == "placeFood"  \* inside placeFood()'s while (true), no free cell
PcSleep   == "sleep"      \* logic() returned, about to compute delay and sleep
PcPrompt  == "prompt"     \* "Play again? (y/n)"
PcReplay  == "replay"     \* about to call initGame() for the replay
PcDone    == "done"       \* return 0

VARIABLES
    snake,      \* deque<pair<int,int>> snake, front is head
    food,       \* pair<int,int> food
    dir,        \* Direction dir
    score,      \* int score
    gameOver,   \* bool gameOver
    delay,      \* int delay of the last frame slept (0 before the first)
    pc,         \* position of main()
    run,        \* 1 in the first game loop of main(), 2 in the replay loop
    win32,      \* TRUE for the _WIN32 build, FALSE for the POSIX build
    last        \* the path the last call of logic() took, until the sleep

vars == <<snake, food, dir, score, gameOver, delay, pc, run, win32, last>>

(***************************************************************************)
(* enum Direction                                                          *)
(***************************************************************************)
STOP  == "STOP"
LEFT  == "LEFT"
RIGHT == "RIGHT"
UP    == "UP"
DOWN  == "DOWN"
Direction == {STOP, LEFT, RIGHT, UP, DOWN}

(***************************************************************************)
(* placeFood()                                                             *)
(***************************************************************************)
(* The scan of line 85: some snake cell equals (fx, fy). *)
onSnake(fx, fy, s) ==
    \E i \in 1..Len(s) : s[i][1] = fx /\ s[i][2] = fy

placeFoodSkipHead(s) ==
    { c \in { <<fx, fy>> : fx \in 0..(width - 1), fy \in 0..(height - 1) } :
        ~onSnake(c[1], c[2], SubSeq(s, 2, Len(s))) }

placeFoodAnyCell(s) ==
    { <<fx, fy>> : fx \in 0..(width - 1), fy \in 0..(height - 1) }

(* The cells placeFood() can return with: rand() % width, rand() % height  *)
(* is resampled until the cell is not on the snake.  Empty when the snake  *)
(* covers the grid: then the loop has no exit.                             *)
placeFood(s) ==
    { c \in { <<fx, fy>> : fx \in 0..(width - 1), fy \in 0..(height - 1) } :
        ~onSnake(c[1], c[2], s) }

(***************************************************************************)
(* initGame()                                                              *)
(***************************************************************************)
initSnake ==
    LET sx == width \div 2
        sy == height \div 2
    IN  << <<sx, sy>>, <<sx - 1, sy>>, <<sx - 2, sy>> >>

(***************************************************************************)
(* input()                                                                 *)
(***************************************************************************)
(* The characters the keyboard can deliver, by what the code tests them    *)
(* against.  NUL is the char 0, E0 is (char)224, H P M K are the codes 72  *)
(* 80 77 75, x is any other key.                                           *)
Chars ==
    { "w", "W", "s", "S", "a", "A", "d", "D", "q", "Q",
      "ESC", "[", "B", "C", "NUL", "E0", "H", "P", "M", "K", "x" }

(* What one call of input() can read: keys[i] is the result of its i-th    *)
(* getch_nonblocking(); kbhit_nonblocking() is false once keys is used up. *)
(* A second and third read happen only after ESC or, on _WIN32, after      *)
(* (char)224.                                                              *)
KeySeqs ==
    { <<>> }
    \cup { <<c>> : c \in Chars }
    \cup { <<c, c2>> : c \in {"ESC", "E0"}, c2 \in Chars }
    \cup { <<"ESC", c2, c3>> : c2 \in {"[", "x", "NUL"}, c3 \in Chars }

(* Lines 153-158: the POSIX arrow sequences ESC [ A/B/C/D. *)
escArrow(c2, c3, d) ==
    IF c2 = "["
    THEN IF c3 = "A" THEN UP
         ELSE IF c3 = "B" THEN DOWN
         ELSE IF c3 = "C" THEN RIGHT
         ELSE IF c3 = "D" THEN LEFT
         ELSE d
    ELSE d

(* Lines 169-172: the _WIN32 arrow codes. *)
winArrow(code, d) ==
    IF code = "H" THEN UP
    ELSE IF code = "P" THEN DOWN
    ELSE IF code = "M" THEN RIGHT
    ELSE IF code = "K" THEN LEFT
    ELSE d

(* Lines 179-182: W A S D. *)
wasd(c, d) ==
    IF c \in {"w", "W"} THEN (IF d # DOWN THEN UP ELSE d)
    ELSE IF c \in {"s", "S"} THEN (IF d # UP THEN DOWN ELSE d)
    ELSE IF c \in {"a", "A"} THEN (IF d # RIGHT THEN LEFT ELSE d)
    ELSE IF c \in {"d", "D"} THEN (IF d # LEFT THEN RIGHT ELSE d)
    ELSE d

(* dir after input() has read keys, on the build w. *)
inputDir(keys, d, w) ==
    IF Len(keys) = 0 THEN d                       \* line 142
    ELSE LET c == keys[1] IN
         IF c = "NUL" THEN d                      \* line 144
         ELSE IF c = "ESC"                        \* lines 147-162
              THEN IF Len(keys) >= 3
                   THEN escArrow(keys[2], keys[3], d)
                   ELSE d
         ELSE IF w /\ c = "E0"                    \* lines 165-176
              THEN IF Len(keys) >= 2
                   THEN winArrow(keys[2], d)
                   ELSE d
         ELSE wasd(c, d)

inputGameOverToggle(keys, g, w) ==
    IF Len(keys) = 0 THEN g
    ELSE LET c == keys[1] IN
         IF c = "NUL" \/ c = "ESC" \/ (w /\ c = "E0") THEN g
         ELSE IF c \in {"q", "Q"} THEN ~g
         ELSE g

(* gameOver after input() has read keys, on the build w: line 183 is       *)
(* reached by the keys that none of the earlier branches took.             *)
inputGameOver(keys, g, w) ==
    IF Len(keys) = 0 THEN g
    ELSE LET c == keys[1] IN
         IF c = "NUL" \/ c = "ESC" \/ (w /\ c = "E0") THEN g
         ELSE IF c \in {"q", "Q"} THEN TRUE
         ELSE g

(***************************************************************************)
(* logic()                                                                 *)
(***************************************************************************)
newHeadSlant(s, d) ==
    LET hx == s[1][1]
        hy == s[1][2]
    IN  IF d = LEFT THEN <<hx - 1, hy>>
        ELSE IF d = RIGHT THEN <<hx + 1, hy>>
        ELSE IF d = UP THEN <<hx - 1, hy - 1>>
        ELSE IF d = DOWN THEN <<hx, hy + 1>>
        ELSE <<hx, hy>>

(* Lines 188-197: the head moved one cell along dir. *)
newHead(s, d) ==
    LET hx == s[1][1]
        hy == s[1][2]
    IN  IF d = LEFT THEN <<hx - 1, hy>>
        ELSE IF d = RIGHT THEN <<hx + 1, hy>>
        ELSE IF d = UP THEN <<hx, hy - 1>>
        ELSE IF d = DOWN THEN <<hx, hy + 1>>
        ELSE <<hx, hy>>

wallCollisionNoTop(h) ==
    h[1] < 0 \/ h[1] >= width \/ h[2] >= height

wallCollisionOffByOne(h) ==
    h[1] < 0 \/ h[1] > width \/ h[2] < 0 \/ h[2] > height

(* Line 200. *)
wallCollision(h) ==
    h[1] < 0 \/ h[1] >= width \/ h[2] < 0 \/ h[2] >= height

selfCollisionNone(h, s) == FALSE

selfCollisionSkipTail(h, s) ==
    \E i \in 1..(Len(s) - 1) : s[i][1] = h[1] /\ s[i][2] = h[2]

(* Lines 206-208: the scan of the whole snake, tail included. *)
selfCollision(h, s) ==
    \E i \in 1..Len(s) : s[i][1] = h[1] /\ s[i][2] = h[2]

logicGameOverAssign(h, s, g) ==
    wallCollision(h) \/ selfCollision(h, s)

(* gameOver after logic(): set at lines 201 and 207, written nowhere else. *)
logicGameOver(h, s, g) ==
    IF wallCollision(h) \/ selfCollision(h, s) THEN TRUE ELSE g

pushFrontAtBack(h, s) == Append(s, h)

(* Line 211: snake.push_front({hx, hy}). *)
pushFront(h, s) == <<h>> \o s

popBackNone(s) == s

(* Line 219: snake.pop_back(). *)
popBack(s) == SubSeq(s, 1, Len(s) - 1)

eatScoreOne(sc) == sc + 1

eatScoreFive(sc) == sc + 5

(* Line 215: score += 10. *)
eatScore(sc) == sc + 10

(***************************************************************************)
(* main(): the frame delay                                                 *)
(***************************************************************************)
baseDelayMs == 120

Min(a, b) == IF a < b THEN a ELSE b

frameDelayDivTen(sc) ==
    LET d == baseDelayMs - Min(80, sc \div 10)
    IN  IF d < 40 THEN 40 ELSE d

(* Lines 231-232. *)
frameDelay(sc) ==
    LET d == baseDelayMs - Min(80, sc \div 5)
    IN  IF d < 40 THEN 40 ELSE d

(***************************************************************************)
(* The state machine                                                       *)
(***************************************************************************)
(* The globals as statically initialised (lines 26-35), on either build. *)
Init ==
    /\ snake = <<>>
    /\ food = <<0, 0>>
    /\ dir = STOP
    /\ score = 0
    /\ gameOver = FALSE
    /\ delay = 0
    /\ pc = PcStart
    /\ run = 1
    /\ win32 \in BOOLEAN
    /\ last = "none"

InitGameNoDir ==
    /\ pc \in {PcStart, PcReplay}
    /\ snake' = initSnake
    /\ score' = 0
    /\ food' \in placeFood(snake')
    /\ gameOver' = FALSE
    /\ pc' = PcLoop
    /\ UNCHANGED <<dir, delay, run, win32, last>>

InitGameKeepScore ==
    /\ pc \in {PcStart, PcReplay}
    /\ snake' = initSnake
    /\ dir' = RIGHT
    /\ food' \in placeFood(snake')
    /\ gameOver' = FALSE
    /\ pc' = PcLoop
    /\ UNCHANGED <<score, delay, run, win32, last>>

(* initGame(), called at line 224 and at line 250.  The snake has 3 cells, *)
(* so placeFood() finds a free cell on every grid of more than 3 cells.    *)
InitGame ==
    /\ pc \in {PcStart, PcReplay}
    /\ snake' = initSnake
    /\ dir' = RIGHT
    /\ score' = 0
    /\ food' \in placeFood(snake')
    /\ gameOver' = FALSE
    /\ pc' = PcLoop
    /\ UNCHANGED <<delay, run, win32, last>>

(* while (!gameOver) { draw(); ...  and, once the loop is left, the code   *)
(* after it: the prompt after the first loop, the end after the second.    *)
LoopTest ==
    /\ pc = PcLoop
    /\ pc' = IF ~gameOver THEN PcInput
             ELSE IF run = 1 THEN PcPrompt ELSE PcDone
    /\ UNCHANGED <<snake, food, dir, score, gameOver, delay, run, win32, last>>

(* input(), for every key sequence it can read: its effect on dir and on   *)
(* gameOver.                                                               *)
Input ==
    /\ pc = PcInput
    /\ \E o \in { <<inputDir(keys, dir, win32), inputGameOver(keys, gameOver, win32)>> :
                        keys \in KeySeqs } :
          /\ dir' = o[1]
          /\ gameOver' = o[2]
    /\ pc' = PcLogic
    /\ UNCHANGED <<snake, food, score, delay, run, win32, last>>

(* logic().  The eating branch ends in placeFood(); with no free cell left *)
(* that call does not return and main() stays inside it.                   *)
Logic ==
    /\ pc = PcLogic
    /\ ~(Len(snake) >= MaxLen /\ newHead(snake, dir) = food)
    /\ LET h == newHead(snake, dir) IN
       /\ gameOver' = logicGameOver(h, snake, gameOver)
       /\ IF wallCollision(h)
          THEN /\ last' = "wall"
               /\ pc' = PcSleep
               /\ UNCHANGED <<snake, food, score>>
          ELSE IF selfCollision(h, snake)
          THEN /\ last' = "self"
               /\ pc' = PcSleep
               /\ UNCHANGED <<snake, food, score>>
          ELSE IF h[1] = food[1] /\ h[2] = food[2]
          THEN /\ snake' = pushFront(h, snake)
               /\ score' = eatScore(score)
               /\ last' = "eat"
               /\ IF placeFood(snake') # {}
                  THEN /\ food' \in placeFood(snake')
                       /\ pc' = PcSleep
                  ELSE /\ food' = food
                       /\ pc' = PcFood
          ELSE /\ snake' = popBack(pushFront(h, snake))
               /\ last' = "move"
               /\ pc' = PcSleep
               /\ UNCHANGED <<food, score>>
    /\ UNCHANGED <<dir, delay, run, win32>>

(* One more round of placeFood()'s while (true) on a full board: whatever  *)
(* cell is sampled is on the snake, and nothing changes.                   *)
PlaceFoodRetry ==
    /\ pc = PcFood
    /\ \E fx \in 0..(width - 1), fy \in 0..(height - 1) : onSnake(fx, fy, snake)
    /\ placeFood(snake) = {}
    /\ UNCHANGED vars

(* Lines 231-233 and 255-257: the frame's delay and sleep. *)
Sleep ==
    /\ pc = PcSleep
    /\ delay' = frameDelay(score)
    /\ last' = "none"
    /\ pc' = PcLoop
    /\ UNCHANGED <<snake, food, dir, score, gameOver, run, win32>>

(* Lines 243-245: cin >> c; 'y' or 'Y' starts the replay. *)
Prompt ==
    /\ pc = PcPrompt
    /\ \E c \in {"y", "Y", "n", "x"} :
          IF c \in {"y", "Y"}
          THEN pc' = PcReplay /\ run' = 2
          ELSE pc' = PcDone /\ run' = run
    /\ UNCHANGED <<snake, food, dir, score, gameOver, delay, win32, last>>

Next ==
    \/ InitGame
    \/ LoopTest
    \/ Input
    \/ Logic
    \/ PlaceFoodRetry
    \/ Sleep
    \/ Prompt

Spec == Init /\ [][Next]_vars

(***************************************************************************)
(* The frame delay over the scores of the program's own grid.  On 40 x 20  *)
(* the snake can eat 40 * 20 - 3 times, far more than on the small grid of *)
(* Spec; here main() stands at line 231 with any of those scores and       *)
(* computes the delay.                                                     *)
(***************************************************************************)
MaxFoods == 797

DelayInit ==
    /\ snake = initSnake
    /\ food = <<0, 0>>
    /\ dir = RIGHT
    /\ score \in { 10 * k : k \in 0..MaxFoods }
    /\ gameOver = FALSE
    /\ delay = 0
    /\ pc = PcSleep
    /\ run = 1
    /\ win32 \in BOOLEAN
    /\ last = "none"

DelayNext == Sleep

DelaySpec == DelayInit /\ [][DelayNext]_vars

(***************************************************************************)
(* Properties                                                              *)
(***************************************************************************)
Distinct(s) == \A i, j \in 1..Len(s) : i # j => s[i] # s[j]

Cells(s) == { s[i] : i \in 1..Len(s) }

InGrid(c) == 0 <= c[1] /\ c[1] < width /\ 0 <= c[2] /\ c[2] < height

Opposite(d) ==
    IF d = LEFT THEN RIGHT
    ELSE IF d = RIGHT THEN LEFT
    ELSE IF d = UP THEN DOWN
    ELSE IF d = DOWN THEN UP
    ELSE "none"

(* C1: in every state after initGame() in which gameOver is false, the     *)
(* cells of the snake are pairwise distinct.                               *)
C1_BodyDistinct == (pc # PcStart /\ ~gameOver) => Distinct(snake)

(* A running game whose snake has eaten twice and has just eaten. *)
C1_Witness == ~gameOver /\ last = "eat" /\ Len(snake) >= 5 /\ Distinct(snake)

(* C2: input() never turns dir into the opposite of what it was, whatever  *)
(* the keys: a request for the opposite direction leaves dir unchanged.    *)
C2_OppositeIgnored ==
    [][(pc = PcInput /\ pc' = PcLogic) => dir' # Opposite(dir)]_vars

(* C3: every call of placeFood() terminates, the full board included:      *)
(* main() is never inside placeFood() with no free cell to find.           *)
C3_PlaceFoodTerminates == pc # PcFood

(* C4: once gameOver is true, a call of logic() changes neither the snake  *)
(* nor the food nor the score; so the tick of the frame in which quit was  *)
(* requested does nothing.                                                 *)
C4_NoTickAfterGameOver ==
    [][(gameOver /\ pc = PcLogic) => UNCHANGED <<snake, food, score>>]_vars

(* C5: when placeFood() returns, in initGame() or in an eating tick, the   *)
(* food is on no cell of the snake as it is then (the new head included).  *)
C5_FoodOffSnake ==
    [][((pc \in {PcStart, PcReplay} /\ pc' = PcLoop)
            \/ (pc = PcLogic /\ pc' = PcSleep /\ last' = "eat"))
        => food' \notin Cells(snake')]_vars

(* An eating tick has returned from placeFood() with the food off the      *)
(* grown snake.                                                            *)
C5_Witness ==
    /\ pc = PcSleep /\ last = "eat"
    /\ Len(snake) >= 4
    /\ food \notin Cells(snake)

(* C6: in a running game, a tick whose new head is in the grid, off the    *)
(* snake and on the food grows the snake by one cell and adds 10 to score. *)
C6_EatGrows ==
    [][(/\ pc = PcLogic
        /\ ~gameOver
        /\ InGrid(newHead(snake, dir))
        /\ newHead(snake, dir) \notin Cells(snake)
        /\ newHead(snake, dir) = food)
        => (Len(snake') = Len(snake) + 1 /\ score' = score + 10)]_vars

(* The first food has just been eaten. *)
C6_Witness ==
    pc = PcSleep /\ last = "eat" /\ ~gameOver /\ score = 10 /\ Len(snake) = 4

(* C7: in a running game, a tick whose new head is in the grid, off the    *)
(* snake and off the food leaves the length, the score and the food as     *)
(* they were.                                                              *)
C7_MoveKeeps ==
    [][(/\ pc = PcLogic
        /\ ~gameOver
        /\ InGrid(newHead(snake, dir))
        /\ newHead(snake, dir) \notin Cells(snake)
        /\ newHead(snake, dir) # food)
        => (Len(snake') = Len(snake) /\ score' = score /\ food' = food)]_vars

(* A plain move has just been made in a running game. *)
C7_Witness ==
    /\ pc = PcSleep /\ last = "move" /\ ~gameOver
    /\ snake # initSnake
    /\ snake[1] # food

(* C8: a tick whose new head is outside the grid sets gameOver and leaves  *)
(* the snake, the food and the score as they were.                         *)
C8_WallStops ==
    [][(pc = PcLogic /\ ~InGrid(newHead(snake, dir)))
        => (gameOver' /\ UNCHANGED <<snake, food, score>>)]_vars

(* The snake has just run into a wall. *)
C8_Witness ==
    /\ pc = PcSleep /\ last = "wall" /\ gameOver
    /\ ~InGrid(newHead(snake, dir))
    /\ \A i \in 1..Len(snake) : InGrid(snake[i])

(* C9: a tick whose new head is in the grid and on any cell of the snake,  *)
(* the tail cell included, sets gameOver and leaves the snake, the food    *)
(* and the score as they were.                                             *)
C9_SelfStops ==
    [][(/\ pc = PcLogic
        /\ InGrid(newHead(snake, dir))
        /\ newHead(snake, dir) \in Cells(snake))
        => (gameOver' /\ UNCHANGED <<snake, food, score>>)]_vars

(* The head has just run into the tail cell. *)
C9_Witness ==
    /\ pc = PcSleep /\ last = "self" /\ gameOver
    /\ Len(snake) >= 4
    /\ newHead(snake, dir) = snake[Len(snake)]

(* C10: between two calls of initGame(), gameOver never goes back from     *)
(* true to false.                                                          *)
C10_GameOverSticks ==
    [][(gameOver /\ pc \notin {PcStart, PcReplay}) => gameOver']_vars

(* logic() has run with gameOver already set by a quit key, moved the      *)
(* snake and left gameOver set.                                            *)
C10_Witness == pc = PcSleep /\ gameOver /\ last \in {"move", "eat"}

Max(a, b) == IF a > b THEN a ELSE b

(* C11: the delay computed for the frame is                                *)
(* max(40, 120 - min(80, score / 5)) with integer division; it lies in     *)
(* 40..120 and is no more than the delay of any smaller score.             *)
C11_FrameDelay ==
    (pc = PcLoop) =>
        /\ delay = Max(40, 120 - Min(80, score \div 5))
        /\ 40 <= delay /\ delay <= 120
        /\ \A k \in 0..(score \div 10) :
              delay <= Max(40, 120 - Min(80, (10 * k) \div 5))

(* A delay computed where the reduction is capped at 80. *)
C11_Witness == pc = PcLoop /\ score > 400 /\ delay = 40

(* C12 as stated: initGame() leaves dir at STOP, and the tick of the first *)
(* frame, dir still STOP, leaves the snake where it is with the game       *)
(* running.                                                                *)
C12_InitialDirNone ==
    [][/\ (pc \in {PcStart, PcReplay} /\ pc' = PcLoop) => dir' = STOP
       /\ (pc = PcLogic /\ snake = initSnake /\ score = 0 /\ dir = STOP /\ ~gameOver)
             => (snake' = snake /\ ~gameOver')]_vars

(* C12 as amended: initGame() leaves dir at RIGHT, and the tick of the     *)
(* first frame, dir still RIGHT, moves the head one cell to the right with *)
(* the game running.                                                       *)
C12_InitialDirRight ==
    [][/\ (pc \in {PcStart, PcReplay} /\ pc' = PcLoop) => dir' = RIGHT
       /\ (pc = PcLogic /\ snake = initSnake /\ score = 0 /\ dir = RIGHT /\ ~gameOver)
             => /\ snake'[1] = <<snake[1][1] + 1, snake[1][2]>>
                /\ ~gameOver']_vars

(* The first frame of the first run has ticked without a change of         *)
(* direction: the head is one cell to the right of where initGame() put it.*)
C12_Witness ==
    /\ pc = PcSleep /\ run = 1 /\ delay = 0
    /\ dir = RIGHT /\ ~gameOver
    /\ snake[1] = <<initSnake[1][1] + 1, initSnake[1][2]>>

UnitVector(d) ==
    IF d = LEFT THEN <<-1, 0>>
    ELSE IF d = RIGHT THEN <<1, 0>>
    ELSE IF d = UP THEN <<0, -1>>
    ELSE IF d = DOWN THEN <<0, 1>>
    ELSE <<0, 0>>

HeadPlus(d) == <<snake[1][1] + UnitVector(d)[1], snake[1][2] + UnitVector(d)[2]>>

(* C13: a tick that hits neither wall nor snake puts the old head plus the *)
(* unit vector of dir in front, followed by the whole old snake when the   *)
(* food is eaten and by the old snake without its last cell otherwise.     *)
C13_OrderKept ==
    [][(/\ pc = PcLogic
        /\ InGrid(HeadPlus(dir))
        /\ HeadPlus(dir) \notin Cells(snake))
        => snake' = IF HeadPlus(dir) = food
                    THEN <<HeadPlus(dir)>> \o snake
                    ELSE <<HeadPlus(dir)>> \o SubSeq(snake, 1, Len(snake) - 1)]_vars

(* A snake that has eaten, then moved on around a corner. *)
C13_Witness ==
    /\ pc = PcSleep /\ last = "move"
    /\ Len(snake) >= 4
    /\ snake[1][1] # snake[3][1] /\ snake[1][2] # snake[3][2]

CentreSnake ==
    << <<width \div 2, height \div 2>>,
       <<(width \div 2) - 1, height \div 2>>,
       <<(width \div 2) - 2, height \div 2>> >>

(* C14: whatever state the finished run left, the initGame() of the replay *)
(* ends with score 0, gameOver false, dir RIGHT, the 3-cell snake at the   *)
(* centre of the grid and the food on a grid cell off that snake.          *)
C14_ReplayFresh ==
    [][(pc = PcReplay /\ pc' = PcLoop)
        => /\ score' = 0
           /\ ~gameOver'
           /\ dir' = RIGHT
           /\ snake' = CentreSnake
           /\ InGrid(food') /\ food' \notin Cells(snake')]_vars

(* A replay has been set up after a run that had scored and ended. *)
C14_Witness ==
    /\ run = 2 /\ pc = PcLoop
    /\ 0 < delay /\ delay < baseDelayMs
    /\ score = 0 /\ ~gameOver /\ dir = RIGHT
    /\ snake = CentreSnake

(* C15: in every state from initGame() on, the snake has 3 + score / 10    *)
(* cells and score is a non-negative multiple of 10; and within a run no   *)
(* step makes the snake shorter.                                           *)
C15_LengthTracksScore ==
    [][/\ (pc' # PcStart)
             => /\ Len(snake') = 3 + (score' \div 10)
                /\ score' >= 0
                /\ score' % 10 = 0
       /\ (pc \notin {PcStart, PcReplay}) => Len(snake') >= Len(snake)]_vars

(* Two foods eaten: 5 cells, score 20. *)
C15_Witness == pc = PcLoop /\ score = 20 /\ Len(snake) = 5

(* C16: between the calls of a frame, while gameOver is false, the food is *)
(* on no cell of the snake: after initGame(), after an eating tick and     *)
(* after every other tick.                                                 *)
C16_FoodNeverOnSnake ==
    (pc \in {PcLoop, PcInput, PcLogic, PcSleep} /\ ~gameOver)
        => food \notin Cells(snake)

(* A plain move made after the food was placed anew, the game running. *)
C16_Witness ==
    /\ pc = PcSleep /\ last = "move" /\ ~gameOver
    /\ score >= 10
    /\ food \notin Cells(snake)

(* C17: in every state from initGame() on, every cell of the snake and the *)
(* food are inside the grid; so the new head of a tick is never both       *)
(* outside the grid and on the snake.                                      *)
C17_AllInGrid ==
    (pc # PcStart)
        => /\ \A i \in 1..Len(snake) : InGrid(snake[i])
           /\ InGrid(food)
           /\ ~(~InGrid(HeadPlus(dir)) /\ HeadPlus(dir) \in Cells(snake))

(* A tick is about to run the head, on the top row, into the wall. *)
C17_Witness ==
    /\ pc = PcLogic
    /\ snake[1][2] = 0 /\ dir = UP
    /\ ~InGrid(HeadPlus(dir))
    /\ \A i \in 1..Len(snake) : InGrid(snake[i])

Abs(n) == IF n < 0 THEN -n ELSE n

(* C18: in every state from initGame() on, consecutive cells of the snake  *)
(* differ by exactly 1 in exactly one coordinate.                          *)
C18_BodyConnected ==
    \A i \in 1..(Len(snake) - 1) :
        Abs(snake[i][1] - snake[i + 1][1]) + Abs(snake[i][2] - snake[i + 1][2]) = 1

(* A snake of six cells with a bend in it. *)
C18_Witness ==
    /\ Len(snake) >= 6
    /\ snake[1][2] # snake[Len(snake)][2]
    /\ \A i \in 1..(Len(snake) - 1) :
          Abs(snake[i][1] - snake[i + 1][1]) + Abs(snake[i][2] - snake[i + 1][2]) = 1

====
